---- MODULE Spec2Model ----
(***************************************************************************)
(* Model of index_darshan_logs.py: the classification of a Darshan log     *)
(* (classify_darshanlog), the aggregation helpers it calls                  *)
(* (get_biggest_api, get_biggest_fs, _identify_fs_from_path,                *)
(* MountToFsName.convert) and the command-line wrapper (main).              *)
(*                                                                         *)
(* Python strings that are inspected character by character (file paths,    *)
(* mount points, file system names) are sequences of one-character          *)
(* strings.  Python dicts whose iteration order matters (counters, the      *)
(* per-API and per-file-system totals) are sequences in insertion order;    *)
(* the other dicts are functions whose DOMAIN is the set of keys present.   *)
(***************************************************************************)
EXTENDS Integers, Sequences, FiniteSets, TLC

VARIABLES
    pc,            \* position of the running call
    darshan_file,  \* argument of classify_darshanlog
    darshan_log,   \* the Darshan object (darshan_data in the helpers)
    features,      \* classify_darshanlog: features
    result,        \* classify_darshanlog: result
    most_files,    \* classify_darshanlog: most_files
    biggest_api,   \* get_biggest_api: the local per-API totals
    biggest_fs,    \* get_biggest_fs: the local per-file-system totals
    resolved,      \* get_biggest_fs: the (file_path, key) pairs of lines 201-203
    ret,           \* value returned by a direct call of a helper
    warned,        \* warnings emitted by warnings.warn
    exc,           \* the uncaught exception, "none" when there is none
    excAt,         \* the step that raised it
    args           \* main: the argparse namespace

vars == <<pc, darshan_file, darshan_log, features, result, most_files,
          biggest_api, biggest_fs, resolved, ret, warned, exc, excAt, args>>

----------------------------------------------------------------------------
(* Strings *)

S_slash == <<"/">>
S_a == <<"/", "a">>
S_af == <<"/", "a", "/", "f">>
S_b == <<"/", "b">>
S_project == <<"/", "p", "r", "o", "j", "e", "c", "t">>
S_projectf == <<"/", "p", "r", "o", "j", "e", "c", "t", "/", "f">>
S_perf == <<"_", "p", "e", "r", "f">>
S_total == <<"_", "t", "o", "t", "a", "l">>
S_x == <<"_", "x">>
S_unknown == <<"u", "n", "k", "n", "o", "w", "n">>
S__unknown == <<"_", "u", "n", "k", "n", "o", "w", "n">>
S_mira_fs1 == <<"m", "i", "r", "a", "-", "f", "s", "1">>
S_scratch1 == <<"s", "c", "r", "a", "t", "c", "h", "1">>
S_scratch2 == <<"s", "c", "r", "a", "t", "c", "h", "2">>
S_scratch3 == <<"s", "c", "r", "a", "t", "c", "h", "3">>
S_cscratch == <<"c", "s", "c", "r", "a", "t", "c", "h">>
S_bb_shared == <<"b", "b", "-", "s", "h", "a", "r", "e", "d">>
S_bb_private == <<"b", "b", "-", "p", "r", "i", "v", "a", "t", "e">>
S_log1 == <<"d", "/", "l", "1">>
S_log2 == <<"l", "2">>
S_exe == <<"/", "b", "i", "n", "/", "a", "p", "p">>

\* Python's None where it is stored next to strings
None == <<"<None>">>

\* Python's empty dict
EmptyDict == [k \in {} |-> 0]

\* dict.update
Update(d, e) == e @@ d

\* str.startswith
StartsWith(s, prefix) ==
    /\ Len(prefix) <= Len(s)
    /\ SubSeq(s, 1, Len(prefix)) = prefix

\* os.path.basename: what follows the last "/"
RECURSIVE Basename(_)
Basename(p) ==
    IF \E i \in 1..Len(p) : p[i] = "/"
    THEN Basename(Tail(p))
    ELSE p

----------------------------------------------------------------------------
(* Bounds of the inputs *)

\* most records of one file in the threshold family of logs
MaxRecs == 9
\* largest header nprocs
MaxProcs == 12

(* Inputs: the Darshan objects the trace reader hands over *)

BR == "BYTES_READ"
BW == "BYTES_WRITTEN"

\* record lists of a real file in the aggregation family
RecsA == << (BR :> 2), (BR :> 0 @@ BW :> 0) >>
RecsB == << (BR :> 1 @@ BW :> 3), (BR :> 1) >>
\* records of a synthetic row
RecsS == << (BR :> 5 @@ BW :> 5) >>

Maybe(path, opts) == {<<>>} \cup {<<[path |-> path, records |-> r]>> : r \in opts}

\* the files of one API: each path absent or present, in a fixed order
FileLists ==
    { a \o b \o p \o x :
        a \in Maybe(S_af, {RecsA, RecsB}), b \in Maybe(S_b, {RecsA, RecsB}),
        p \in Maybe(S_perf, {RecsS}), x \in Maybe(S_x, {RecsS}) }

CountersAgg ==
    {<<>>}
    \cup {<<[api |-> "POSIX", files |-> f]>> : f \in FileLists}
    \cup {<<[api |-> "POSIX", files |-> f], [api |-> "MPIIO", files |-> g]>> :
            f \in FileLists, g \in FileLists}

MountsAgg == { <<>>, <<S_slash, S_a>>, <<S_a, S_slash>> }

DefaultHeader == [nprocs |-> 4, start_time |-> 1, exe |-> <<S_exe>>]

LogsAgg ==
    { [counters |-> c, mounts |-> m, header |-> DefaultHeader] :
        c \in CountersAgg, m \in MountsAgg }
    \cup { [mounts |-> m, header |-> DefaultHeader] : m \in MountsAgg }

\* n copies of a record
Rep(rec, n) == [i \in 1..n |-> rec]

RecTypes ==
    { (BR :> 10 @@ BW :> 1), (BR :> 1 @@ BW :> 10), (BR :> 1), (BW :> 1),
      (BR :> 0 @@ BW :> 0) }

Extras == { <<>>, <<(BR :> 1)>>, <<(BW :> 1)>> }

CountersThr ==
    { <<[api |-> "POSIX",
         files |-> <<[path |-> S_projectf, records |-> Rep(t, k) \o e]>>]>> :
        t \in RecTypes, k \in 0..MaxRecs, e \in Extras }

HeadersThr ==
    { [nprocs |-> n, start_time |-> 1, exe |-> <<S_exe>>] : n \in 0..MaxProcs }
    \cup { [start_time |-> 1, exe |-> <<S_exe>>],
           [nprocs |-> 4, exe |-> <<S_exe>>],
           [nprocs |-> 4, start_time |-> 1],
           [nprocs |-> 4, start_time |-> 1, exe |-> <<>>],
           [nprocs |-> 4] }

LogsThr ==
    { [counters |-> c, mounts |-> <<S_project>>, header |-> h] :
        c \in CountersThr, h \in HeadersThr }

Logs == LogsAgg \cup LogsThr

----------------------------------------------------------------------------
(* get_biggest_api *)

\* lines 160-168 for one direction: the bytes added and the records counted
\* by "if bytes_read:" (key present and value non-zero)
RECURSIVE RecordTotals(_, _)
RecordTotals(records, key) ==
    IF records = <<>> THEN [bytes |-> 0, files |-> 0]
    ELSE LET record == Head(records)
             rest == RecordTotals(Tail(records), key)
             truthy == key \in DOMAIN record /\ record[key] # 0
         IN  IF truthy
             THEN [bytes |-> rest.bytes + record[key], files |-> rest.files + 1]
             ELSE rest

\* line 158: the rows get_biggest_api skips
SkippedByApi(file_path) == StartsWith(file_path, <<"_">>)

\* lines 157-168: the totals of one API over its files
RECURSIVE FileTotals(_, _)
FileTotals(files, key) ==
    IF files = <<>> THEN [bytes |-> 0, files |-> 0]
    ELSE LET f == Head(files)
             rest == FileTotals(Tail(files), key)
             own == RecordTotals(f.records, key)
         IN  IF SkippedByApi(f.path) THEN rest
             ELSE [bytes |-> rest.bytes + own.bytes, files |-> rest.files + own.files]

\* lines 149-168: biggest_api, one entry per API in iteration order
ApiTotals(counters) ==
    [i \in 1..Len(counters) |->
        LET r == FileTotals(counters[i].files, BR)
            w == FileTotals(counters[i].files, BW)
        IN  [api |-> counters[i].api, read |-> r.bytes, write |-> w.bytes,
             read_files |-> r.files, write_files |-> w.files]]

\* a mutant of ArgMax: the last of the maximal entries
ArgMaxLast(totals, rw) ==
    CHOOSE i \in 1..Len(totals) :
        /\ \A j \in 1..Len(totals) : totals[j][rw] <= totals[i][rw]
        /\ \A j \in (i+1)..Len(totals) : totals[j][rw] < totals[i][rw]

\* Python's max(d, key=...): the first of the maximal entries
ArgMax(totals, rw) ==
    CHOOSE i \in 1..Len(totals) :
        /\ \A j \in 1..Len(totals) : totals[j][rw] <= totals[i][rw]
        /\ \A j \in 1..(i-1) : totals[j][rw] < totals[i][rw]

\* lines 172-175: the results of the dominant entries r (read) and w (write)
ApiResults(r, w) ==
    [biggest_read_api |-> r.api,
     biggest_read_api_bytes |-> r.read,
     biggest_read_api_files |-> r.read_files,
     biggest_write_api |-> w.api,
     biggest_write_api_bytes |-> w.write,
     biggest_write_api_files |-> w.write_files]

\* lines 170-177: max() of an empty dict raises ValueError
ApiSelect(totals) ==
    IF totals = <<>>
    THEN [exc |-> "ValueError", val |-> EmptyDict, biggest_api |-> totals]
    ELSE [exc |-> "none",
          val |-> ApiResults(totals[ArgMax(totals, "read")],
                             totals[ArgMax(totals, "write")]),
          biggest_api |-> totals]

\* lines 142-177; exc is the exception the call raises
get_biggest_api(darshan_data) ==
    IF "counters" \notin DOMAIN darshan_data
    THEN [exc |-> "none", val |-> EmptyDict, biggest_api |-> <<>>]
    ELSE ApiSelect(ApiTotals(darshan_data.counters))

----------------------------------------------------------------------------
(* _identify_fs_from_path *)

\* a mutant of IdentifyStep: the length test dropped
IdentifyStepAnyPrefix(path, mount, best) ==
    IF StartsWith(path, mount)
    THEN [max_match |-> Len(mount), matching_mount |-> mount]
    ELSE best

\* lines 230-232: one iteration of the loop
IdentifyStep(path, mount, best) ==
    IF StartsWith(path, mount) /\ Len(mount) > best.max_match
    THEN [max_match |-> Len(mount), matching_mount |-> mount]
    ELSE best

RECURSIVE IdentifyLoop(_, _, _)
IdentifyLoop(path, mounts, best) ==
    IF mounts = <<>> THEN best
    ELSE IdentifyLoop(path, Tail(mounts), IdentifyStep(path, Head(mounts), best))

\* lines 221-233
identify_fs_from_path(path, mounts) ==
    IdentifyLoop(path, mounts, [max_match |-> 0, matching_mount |-> None]).matching_mount

----------------------------------------------------------------------------
(* get_biggest_fs *)

\* line 198: the rows get_biggest_fs skips
SkippedByFs(file_path) == file_path \in {S_perf, S_total}

\* the files of an API (darshan_data['counters'][api_name])
FilesOf(counters, api_name) ==
    LET i == CHOOSE j \in 1..Len(counters) : counters[j].api = api_name
    IN  counters[i].files

\* lines 197-200: the (file_path, record) pairs the loops visit for one API
RECURSIVE FileItems(_)
FileItems(files) ==
    IF files = <<>> THEN <<>>
    ELSE LET f == Head(files)
             own == IF SkippedByFs(f.path) THEN <<>>
                    ELSE [j \in 1..Len(f.records) |->
                            [path |-> f.path, record |-> f.records[j]]]
         IN  own \o FileItems(Tail(files))

\* line 196: the dominant read API, then the dominant write API
VisitedItems(counters, biggest_read_api, biggest_write_api) ==
    FileItems(FilesOf(counters, biggest_read_api))
        \o FileItems(FilesOf(counters, biggest_write_api))

\* lines 202-203
KeyOrUnknown(key) == IF key = None THEN S__unknown ELSE key

\* lines 201-203
KeyOf(file_path, mounts) == KeyOrUnknown(identify_fs_from_path(file_path, mounts))

\* lines 204-205
WithKey(fs, key) ==
    IF \E i \in 1..Len(fs) : fs[i].key = key
    THEN fs
    ELSE Append(fs, [key |-> key, write |-> 0, read |-> 0])

\* lines 206-211: "is not None" adds a value of 0 as well
Accumulate(fs, i, record) ==
    [fs EXCEPT ![i] = [key |-> @.key,
                       write |-> @.write + (IF BW \in DOMAIN record THEN record[BW] ELSE 0),
                       read |-> @.read + (IF BR \in DOMAIN record THEN record[BR] ELSE 0)]]

IndexOfKey(fs, key) == CHOOSE j \in 1..Len(fs) : fs[j].key = key

AddToKey(fs, key, record) == Accumulate(fs, IndexOfKey(fs, key), record)

\* lines 204-211: one record added to biggest_fs
AddRecord(fs, key, record) == AddToKey(WithKey(fs, key), key, record)

\* lines 194-211: biggest_fs, one entry per key in insertion order
RECURSIVE FsTotalsOf(_, _, _)
FsTotalsOf(items, mounts, fs) ==
    IF items = <<>> THEN fs
    ELSE FsTotalsOf(Tail(items), mounts,
                    AddRecord(fs, KeyOf(Head(items).path, mounts), Head(items).record))

\* the (file_path, key) pairs the loop computes
KeysOf(items, mounts) ==
    [i \in 1..Len(items) |->
        [path |-> items[i].path, key |-> KeyOf(items[i].path, mounts)]]

\* lines 214-217: the results of the dominant entries r (read) and w (write)
FsResults(r, w) ==
    [biggest_read_fs |-> r.key, biggest_read_fs_bytes |-> r.read,
     biggest_write_fs |-> w.key, biggest_write_fs_bytes |-> w.write]

\* lines 213-219: max() of an empty dict raises ValueError
FsSelect(fs, keys) ==
    IF fs = <<>>
    THEN [exc |-> "ValueError", val |-> EmptyDict, biggest_fs |-> fs,
          resolved |-> keys, looped |-> TRUE]
    ELSE [exc |-> "none",
          val |-> FsResults(fs[ArgMax(fs, "read")], fs[ArgMax(fs, "write")]),
          biggest_fs |-> fs, resolved |-> keys, looped |-> TRUE]

\* lines 194-219
FsOfItems(items, mounts) ==
    FsSelect(FsTotalsOf(items, mounts, <<>>), KeysOf(items, mounts))

FsNotLooped(e) ==
    [exc |-> e, val |-> EmptyDict, biggest_fs |-> <<>>, resolved |-> <<>>,
     looped |-> FALSE]

\* lines 186-219, api being the dominant APIs or the exception of line 187
FsOfApis(darshan_data, api) ==
    IF api.exc # "none" THEN FsNotLooped(api.exc)
    ELSE FsOfItems(VisitedItems(darshan_data.counters, api.val.biggest_read_api,
                                api.val.biggest_write_api),
                   darshan_data.mounts)

\* lines 179-219; exc is the exception the call raises, looped whether the
\* loop of lines 196-211 ran
get_biggest_fs(darshan_data) ==
    IF "counters" \notin DOMAIN darshan_data THEN FsNotLooped("none")
    ELSE IF /\ "biggest_read_api" \in DOMAIN darshan_data
            /\ "biggest_write_api" \in DOMAIN darshan_data
    THEN FsOfApis(darshan_data, [exc |-> "none", val |-> darshan_data])
    ELSE FsOfApis(darshan_data, get_biggest_api(darshan_data))

----------------------------------------------------------------------------
(* MountToFsName *)

\* lines 18-26
FSNAME_TO_SYSTEM ==
    << [fs |-> S_mira_fs1, system |-> "mira"],
       [fs |-> S_scratch1, system |-> "edison"],
       [fs |-> S_scratch2, system |-> "edison"],
       [fs |-> S_scratch3, system |-> "edison"],
       [fs |-> S_cscratch, system |-> "cori"],
       [fs |-> S_bb_shared, system |-> "cori"],
       [fs |-> S_bb_private, system |-> "cori"] >>

\* tokio.config.CONFIG['mount_to_fsname'] of the run: one rule, a literal
\* pattern (re.match anchors it at the start of the mount)
CONFIG == << [rex |-> S_a, fsname |-> S_scratch1] >>

\* lines 35-40: the configured rules, then the hard-coded one
mount_regex == CONFIG \o << [rex |-> S_project, fsname |-> S_mira_fs1] >>

RECURSIVE FirstMatch(_, _)
FirstMatch(rules, mount) ==
    IF rules = <<>> THEN mount
    ELSE IF StartsWith(mount, Head(rules).rex) THEN Head(rules).fsname
    ELSE FirstMatch(Tail(rules), mount)

\* lines 42-60
convert(mount) ==
    IF mount = S_slash THEN mount ELSE FirstMatch(mount_regex, mount)

----------------------------------------------------------------------------
(* classify_darshanlog: the decisions *)

\* a mutant of ReadOrWrite: the thresholds inclusive
ReadOrWriteInclusive(f) ==
    IF f.biggest_read_api_bytes >= 10 * f.biggest_write_api_bytes
    THEN [read_or_write |-> "read", file_system |-> f.biggest_read_fs,
          most_files |-> f.biggest_read_api_files]
    ELSE IF f.biggest_write_api_bytes >= 10 * f.biggest_read_api_bytes
    THEN [read_or_write |-> "write", file_system |-> f.biggest_write_fs,
          most_files |-> f.biggest_write_api_files]
    ELSE [read_or_write |-> "unknown", file_system |-> S_unknown, most_files |-> 0]

\* a mutant of ReadOrWrite: the else branch keeps the read side's files
ReadOrWriteKeepsFiles(f) ==
    IF f.biggest_read_api_bytes > 10 * f.biggest_write_api_bytes
    THEN [read_or_write |-> "read", file_system |-> f.biggest_read_fs,
          most_files |-> f.biggest_read_api_files]
    ELSE IF f.biggest_write_api_bytes > 10 * f.biggest_read_api_bytes
    THEN [read_or_write |-> "write", file_system |-> f.biggest_write_fs,
          most_files |-> f.biggest_write_api_files]
    ELSE [read_or_write |-> "unknown", file_system |-> f.biggest_read_fs,
          most_files |-> f.biggest_read_api_files]

\* lines 91-103
ReadOrWrite(f) ==
    IF f.biggest_read_api_bytes > 10 * f.biggest_write_api_bytes
    THEN [read_or_write |-> "read", file_system |-> f.biggest_read_fs,
          most_files |-> f.biggest_read_api_files]
    ELSE IF f.biggest_write_api_bytes > 10 * f.biggest_read_api_bytes
    THEN [read_or_write |-> "write", file_system |-> f.biggest_write_fs,
          most_files |-> f.biggest_write_api_files]
    ELSE [read_or_write |-> "unknown", file_system |-> S_unknown, most_files |-> 0]

\* line 106: FSNAME_TO_SYSTEM.get(file_system, "unknown")
ComputeSystem(file_system) ==
    IF \E i \in 1..Len(FSNAME_TO_SYSTEM) : FSNAME_TO_SYSTEM[i].fs = file_system
    THEN FSNAME_TO_SYSTEM[CHOOSE i \in 1..Len(FSNAME_TO_SYSTEM) :
                            FSNAME_TO_SYSTEM[i].fs = file_system].system
    ELSE "unknown"

(* Python floats are IEEE-754 doubles.  float(m) / float(n) is m/n rounded  *)
(* to the nearest double (ties to even), and the literals 0.90 and 0.10 are *)
(* the doubles 8106479329266893 / 2^53 and 7205759403792794 / 2^56.  The    *)
(* comparisons of lines 110 and 112 are decided exactly on natural numbers  *)
(* too wide for one machine word: little-endian sequences of base-10000     *)
(* digits.                                                                   *)

RECURSIVE BigTimes(_, _, _)
BigTimes(digits, k, carry) ==
    IF digits = <<>>
    THEN IF carry = 0 THEN <<>>
         ELSE <<carry % 10000>> \o BigTimes(<<>>, k, carry \div 10000)
    ELSE LET t == Head(digits) * k + carry
         IN  <<t % 10000>> \o BigTimes(Tail(digits), k, t \div 10000)

BigDigit(a, i) == IF i <= Len(a) THEN a[i] ELSE 0

RECURSIVE BigCompareFrom(_, _, _)
BigCompareFrom(a, b, i) ==
    IF i = 0 THEN 0
    ELSE IF BigDigit(a, i) > BigDigit(b, i) THEN 1
    ELSE IF BigDigit(a, i) < BigDigit(b, i) THEN -1
    ELSE BigCompareFrom(a, b, i - 1)

\* -1, 0 or 1 as a < b, a = b or a > b
BigCompare(a, b) ==
    BigCompareFrom(a, b, IF Len(a) > Len(b) THEN Len(a) ELSE Len(b))

\* 2^54 and 2^57
Two54 == <<1984, 948, 3985, 8014, 1>>
Two57 == <<5872, 7585, 1880, 4115, 14>>
\* 2 * 8106479329266893 + 1: m/n rounds above the double 0.90 exactly when
\* m/n >= Above090 / 2^54 (the tie rounds up, to the even significand)
Above090 == <<3787, 5853, 9586, 6212, 1>>
\* 2 * 7205759403792794 - 1: m/n rounds below the double 0.10 exactly when
\* m/n < Below010 / 2^57 (the tie rounds up, to the even significand)
Below010 == <<5587, 758, 5188, 4411, 1>>

\* line 110: float(m) / float(n) > 0.90, for n > 0
QuotientAbove090(m, n) ==
    BigCompare(BigTimes(Two54, m, 0), BigTimes(Above090, n, 0)) >= 0

\* line 112: float(m) / float(n) < 0.10, for n > 0
QuotientBelow010(m, n) ==
    BigCompare(BigTimes(Two57, m, 0), BigTimes(Below010, n, 0)) < 0

\* a mutant of SharedOrFpp: the thresholds inclusive
SharedOrFppInclusive(m, n) ==
    IF 10 * m >= 9 * n THEN "fpp"
    ELSE IF 10 * m <= n THEN "shared"
    ELSE "unknown"

\* lines 110-115
SharedOrFpp(m, n) ==
    IF QuotientAbove090(m, n) THEN "fpp"
    ELSE IF QuotientBelow010(m, n) THEN "shared"
    ELSE "unknown"

\* lines 119-120: the formatted date of a timestamp (its day)
Date(start_time) == <<"date", start_time \div 86400>>

\* lines 129-132: the digest of the file's bytes
Md5(file) == <<"md5">> \o file

----------------------------------------------------------------------------
(* The calls *)

Init ==
    /\ pc = "idle"
    /\ darshan_file = None
    /\ darshan_log = EmptyDict
    /\ features = EmptyDict
    /\ result = EmptyDict
    /\ most_files = 0
    /\ biggest_api = <<>>
    /\ biggest_fs = <<>>
    /\ resolved = <<>>
    /\ ret = EmptyDict
    /\ warned = <<>>
    /\ exc = "none"
    /\ excAt = "none"
    /\ args = EmptyDict

\* an exception leaves the running call
Raise(type, at) ==
    /\ pc' = "raised"
    /\ exc' = type
    /\ excAt' = at

Goto(next) ==
    /\ pc' = next
    /\ UNCHANGED <<exc, excAt>>

\* get_biggest_api returns r to its caller, or raises
ApiReturns(r) ==
    /\ biggest_api' = r.biggest_api
    /\ ret' = r.val
    /\ IF r.exc = "none" THEN Goto("api_returned")
       ELSE Raise(r.exc, "get_biggest_api")

\* get_biggest_fs returns r to its caller, or raises
FsReturns(r) ==
    /\ biggest_fs' = r.biggest_fs
    /\ resolved' = r.resolved
    /\ ret' = r.val
    /\ IF r.exc = "none" THEN Goto("fs_returned")
       ELSE Raise(r.exc, "get_biggest_fs")

\* line 81 with r the outcome of the call
FeaturesFromApi(r) ==
    /\ biggest_api' = r.biggest_api
    /\ IF r.exc = "none"
       THEN features' = r.val /\ Goto("biggest_fs")
       ELSE UNCHANGED features /\ Raise(r.exc, "biggest_api")

\* line 82 with r the outcome of the call
FeaturesFromFs(r) ==
    /\ biggest_fs' = r.biggest_fs
    /\ resolved' = r.resolved
    /\ IF r.exc = "none"
       THEN features' = Update(features, r.val) /\ Goto("convert")
       ELSE UNCHANGED features /\ Raise(r.exc, "biggest_fs")

\* lines 91-103 with d the branch taken
SetReadOrWrite(d) ==
    /\ result' = Update(result, [read_or_write |-> d.read_or_write,
                                 file_system |-> d.file_system])
    /\ most_files' = d.most_files

\* lines 108-115
SetSharedOrFpp(header) ==
    IF "nprocs" \notin DOMAIN header
    THEN UNCHANGED result /\ Raise("KeyError", "shared_or_fpp")
    ELSE IF header.nprocs = 0
    THEN UNCHANGED result /\ Raise("ZeroDivisionError", "shared_or_fpp")
    ELSE /\ result' = Update(result,
                 [shared_or_fpp |-> SharedOrFpp(most_files, header.nprocs)])
         /\ Goto("start_time")

\* lines 117-123: the handler formats its warning with result['log_file'],
\* which line 126 sets only later
SetStartTime(header) ==
    IF "start_time" \in DOMAIN header
    THEN /\ result' = Update(result, [date |-> Date(header.start_time),
                                      start_time |-> header.start_time])
         /\ UNCHANGED warned
         /\ Goto("log_file")
    ELSE IF "log_file" \in DOMAIN result
    THEN /\ warned' = Append(warned, "start_time is undecipherable")
         /\ UNCHANGED result
         /\ Goto("log_file")
    ELSE /\ UNCHANGED <<result, warned>>
         /\ Raise("KeyError", "start_time")

\* lines 134-140
SetApplication(header) ==
    IF "exe" \in DOMAIN header /\ Len(header.exe) > 0
    THEN /\ result' = Update(result, [application |-> Basename(header.exe[1])])
         /\ UNCHANGED warned
    ELSE /\ UNCHANGED result
         /\ warned' = Append(warned, "exe is undecipherable")

\* a caller hands a Darshan object to get_biggest_api (lines 142-177)
CallGetBiggestApi ==
    /\ pc = "idle"
    /\ \E d \in Logs :
        /\ darshan_log' = d
        /\ ApiReturns(get_biggest_api(d))
    /\ UNCHANGED <<darshan_file, features, result, most_files, biggest_fs,
                   resolved, warned, args>>

\* a caller hands a Darshan object to get_biggest_fs (lines 179-219)
CallGetBiggestFs ==
    /\ pc = "idle"
    /\ \E d \in Logs :
        /\ darshan_log' = d
        /\ FsReturns(get_biggest_fs(d))
    /\ UNCHANGED <<darshan_file, features, result, most_files, biggest_api,
                   warned, args>>

\* classify_darshanlog(darshan_file) is called (line 62)
ClassifyCall ==
    /\ pc = "idle"
    /\ darshan_file' = S_log1
    /\ Goto("parse")
    /\ UNCHANGED <<darshan_log, features, result, most_files, biggest_api,
                   biggest_fs, resolved, ret, warned, args>>

\* lines 78-79: the trace reader returns a record set or fails outright
ClassifyParse ==
    /\ pc = "parse"
    /\ \/ /\ Raise("ReaderError", "parse")
          /\ UNCHANGED darshan_log
       \/ /\ \E d \in Logs : darshan_log' = d
          /\ Goto("biggest_api")
    /\ UNCHANGED <<darshan_file, features, result, most_files, biggest_api,
                   biggest_fs, resolved, ret, warned, args>>

\* line 81
ClassifyBiggestApi ==
    /\ pc = "biggest_api"
    /\ FeaturesFromApi(get_biggest_api(darshan_log))
    /\ UNCHANGED <<darshan_file, darshan_log, result, most_files, biggest_fs,
                   resolved, ret, warned, args>>

\* line 82
ClassifyBiggestFs ==
    /\ pc = "biggest_fs"
    /\ FeaturesFromFs(get_biggest_fs(darshan_log))
    /\ UNCHANGED <<darshan_file, darshan_log, result, most_files, biggest_api,
                   ret, warned, args>>

\* lines 85-89
ClassifyConvert ==
    /\ pc = "convert"
    /\ IF "biggest_write_fs" \in DOMAIN features
       THEN /\ features' = [features EXCEPT
                               !["biggest_write_fs"] = convert(@),
                               !["biggest_read_fs"] = convert(@)]
            /\ Goto("read_or_write")
       ELSE /\ UNCHANGED features
            /\ Raise("KeyError", "convert")
    /\ result' = EmptyDict
    /\ UNCHANGED <<darshan_file, darshan_log, most_files, biggest_api,
                   biggest_fs, resolved, ret, warned, args>>

\* lines 91-103
ClassifyReadOrWrite ==
    /\ pc = "read_or_write"
    /\ SetReadOrWrite(ReadOrWrite(features))
    /\ Goto("compute_system")
    /\ UNCHANGED <<darshan_file, darshan_log, features, biggest_api,
                   biggest_fs, resolved, ret, warned, args>>

\* lines 105-106
ClassifyComputeSystem ==
    /\ pc = "compute_system"
    /\ result' = Update(result, [compute_system |-> ComputeSystem(result.file_system)])
    /\ Goto("shared_or_fpp")
    /\ UNCHANGED <<darshan_file, darshan_log, features, most_files, biggest_api,
                   biggest_fs, resolved, ret, warned, args>>

\* lines 108-115
ClassifySharedOrFpp ==
    /\ pc = "shared_or_fpp"
    /\ SetSharedOrFpp(darshan_log.header)
    /\ UNCHANGED <<darshan_file, darshan_log, features, most_files, biggest_api,
                   biggest_fs, resolved, ret, warned, args>>

\* lines 117-123
ClassifyStartTime ==
    /\ pc = "start_time"
    /\ SetStartTime(darshan_log.header)
    /\ UNCHANGED <<darshan_file, darshan_log, features, most_files, biggest_api,
                   biggest_fs, resolved, ret, args>>

\* lines 125-126
ClassifyLogFile ==
    /\ pc = "log_file"
    /\ result' = Update(result, [log_file |-> Basename(darshan_file)])
    /\ Goto("md5")
    /\ UNCHANGED <<darshan_file, darshan_log, features, most_files, biggest_api,
                   biggest_fs, resolved, ret, warned, args>>

\* lines 128-132: the file is read again, and open() may fail
ClassifyMd5 ==
    /\ pc = "md5"
    /\ \/ /\ result' = Update(result, [md5 |-> Md5(darshan_file)])
          /\ Goto("application")
       \/ /\ UNCHANGED result
          /\ Raise("IOError", "md5")
    /\ UNCHANGED <<darshan_file, darshan_log, features, most_files, biggest_api,
                   biggest_fs, resolved, ret, warned, args>>

\* lines 134-140
ClassifyApplication ==
    /\ pc = "application"
    /\ SetApplication(darshan_log.header)
    /\ ret' = result'
    /\ Goto("returned")
    /\ UNCHANGED <<darshan_file, darshan_log, features, most_files, biggest_api,
                   biggest_fs, resolved, args>>

\* the command lines main is given: one or two logs, -t 1 or -t 2, with or
\* without --json
LogLists == { <<S_log1>>, <<S_log2>>, <<S_log1, S_log2>>, <<S_log2, S_log1>> }

\* lines 239-248: parse_args stores the positional under dest 'darshanlogs'
MainCall ==
    /\ pc = "idle"
    /\ \E logs \in LogLists, t \in {1, 2}, j \in BOOLEAN :
        args' = [darshanlogs |-> logs, output |-> None, json |-> j, threads |-> t]
    /\ Goto("main_globs")
    /\ UNCHANGED <<darshan_file, darshan_log, features, result, most_files,
                   biggest_api, biggest_fs, resolved, ret, warned>>

\* lines 252-257: line 253 reads args.darshan_logs, an attribute the
\* namespace does not have, so every run ends here and lines 259-295 (the
\* loop over the logs, the worker pool, the output) are never reached
MainExpandGlobs ==
    /\ pc = "main_globs"
    /\ IF "darshan_logs" \in DOMAIN args
       THEN Goto("main_classify")
       ELSE Raise("AttributeError", "main")
    /\ UNCHANGED <<darshan_file, darshan_log, features, result, most_files,
                   biggest_api, biggest_fs, resolved, ret, warned, args>>

Next ==
    \/ CallGetBiggestApi
    \/ CallGetBiggestFs
    \/ ClassifyCall
    \/ ClassifyParse
    \/ ClassifyBiggestApi
    \/ ClassifyBiggestFs
    \/ ClassifyConvert
    \/ ClassifyReadOrWrite
    \/ ClassifyComputeSystem
    \/ ClassifySharedOrFpp
    \/ ClassifyStartTime
    \/ ClassifyLogFile
    \/ ClassifyMd5
    \/ ClassifyApplication
    \/ MainCall
    \/ MainExpandGlobs

Spec == Init /\ [][Next]_vars

----------------------------------------------------------------------------
(* Claims *)

Header == darshan_log.header

HasHeader == "header" \in DOMAIN darshan_log

NeitherDominates(R, W) == ~(R > 10 * W) /\ ~(W > 10 * R)

ThresholdLabels(R, W) ==
    /\ (result.read_or_write = "read") <=> (R > 10 * W)
    /\ (result.read_or_write = "write") <=> (~(R > 10 * W) /\ W > 10 * R)
    /\ NeitherDominates(R, W) =>
        /\ result.read_or_write = "unknown"
        /\ result.file_system = S_unknown
        /\ most_files = 0

\* C1: once classify_darshanlog has labelled the run, with R and W the bytes
\* of the dominant read and write APIs, the label is 'read' exactly when
\* R > 10*W, otherwise 'write' exactly when W > 10*R, and in every other case
\* the label is 'unknown', file_system is 'unknown' and most_files is 0.
C1_ReadWriteThreshold ==
    "read_or_write" \in DOMAIN result =>
        ThresholdLabels(features.biggest_read_api_bytes,
                        features.biggest_write_api_bytes)

\* a run labelled with R = 10*W exactly, W positive: not 'read'
C1_Witness ==
    /\ "read_or_write" \in DOMAIN result
    /\ features.biggest_write_api_bytes > 0
    /\ features.biggest_read_api_bytes = 10 * features.biggest_write_api_bytes
    /\ result.read_or_write = "unknown"

PatternLabels(m, n) ==
    /\ (result.shared_or_fpp = "fpp") <=> (10 * m > 9 * n)
    /\ (result.shared_or_fpp = "shared") <=> (10 * m < n)
    /\ (result.shared_or_fpp = "unknown") <=> (10 * m <= 9 * n /\ 10 * m >= n)

\* C2: once classify_darshanlog has set shared_or_fpp, with m = most_files
\* and n = nprocs > 0, it is 'fpp' exactly when 10*m > 9*n, 'shared' exactly
\* when 10*m < n, and 'unknown' otherwise.
C2_FilesPerProcThreshold ==
    ("shared_or_fpp" \in DOMAIN result /\ Header.nprocs > 0) =>
        PatternLabels(most_files, Header.nprocs)

\* a run whose ratio is exactly 0.90: not 'fpp'
C2_Witness ==
    /\ "shared_or_fpp" \in DOMAIN result
    /\ most_files > 0
    /\ 10 * most_files = 9 * Header.nprocs
    /\ result.shared_or_fpp = "unknown"

\* C10: whenever read_or_write is 'unknown' and nprocs is positive,
\* shared_or_fpp is 'shared' and compute_system is 'unknown'.
C10_UnknownIsSharedUnknown ==
    ( /\ "shared_or_fpp" \in DOMAIN result
      /\ result.read_or_write = "unknown"
      /\ Header.nprocs > 0 )
    => /\ result.shared_or_fpp = "shared"
       /\ result.compute_system = "unknown"

\* an 'unknown' run whose dominant read API touched more files than there are
\* processes, on a file system that belongs to a known compute system
C10_Witness ==
    /\ "shared_or_fpp" \in DOMAIN result
    /\ result.read_or_write = "unknown"
    /\ Header.nprocs > 0
    /\ features.biggest_read_api_files > Header.nprocs
    /\ ComputeSystem(features.biggest_read_fs) # "unknown"

\* the mounts that are literal prefixes of a path
Matching(path, mounts) == {j \in 1..Len(mounts) : StartsWith(path, mounts[j])}

LongestOf(key, mounts, matching) ==
    IF matching = {} THEN key = S__unknown
    ELSE \E j \in matching :
            /\ key = mounts[j]
            /\ \A k \in matching : Len(mounts[k]) <= Len(key)

\* C6: every path get_biggest_fs resolves is bucketed under a mount that is a
\* prefix of the path and at least as long as every other mount that is a
\* prefix of it, or under '_unknown' when no mount is a prefix; the keys of
\* biggest_fs are exactly the keys so resolved.
C6_LongestPrefixMount ==
    /\ \A i \in 1..Len(resolved) :
        LongestOf(resolved[i].key, darshan_log.mounts,
                  Matching(resolved[i].path, darshan_log.mounts))
    /\ {resolved[i].key : i \in 1..Len(resolved)}
         = {biggest_fs[i].key : i \in 1..Len(biggest_fs)}

\* a call that resolved one path with two matching mounts, the longer listed
\* first, and another path with none
C6_Witness ==
    /\ pc = "fs_returned"
    /\ \E i \in 1..Len(resolved) :
        /\ Cardinality(Matching(resolved[i].path, darshan_log.mounts)) = 2
        /\ resolved[i].key = darshan_log.mounts[1]
    /\ \E i \in 1..Len(resolved) :
        /\ Matching(resolved[i].path, darshan_log.mounts) = {}
        /\ resolved[i].key = S__unknown

\* the (file, record) places of an API's files that are not synthetic rows
\* and hold a non-zero value under key
Cells(files, key) ==
    { c \in UNION { {f} \X DOMAIN files[f].records : f \in 1..Len(files) } :
        /\ ~StartsWith(files[c[1]].path, <<"_">>)
        /\ key \in DOMAIN files[c[1]].records[c[2]]
        /\ files[c[1]].records[c[2]][key] # 0 }

RECURSIVE SumCells(_, _, _)
SumCells(cells, files, key) ==
    IF cells = {} THEN 0
    ELSE LET c == CHOOSE x \in cells : TRUE
         IN  files[c[1]].records[c[2]][key] + SumCells(cells \ {c}, files, key)

TotalOf(counters, i, key) == SumCells(Cells(counters[i].files, key), counters[i].files, key)

CountOf(counters, i, key) == Cardinality(Cells(counters[i].files, key))

\* API i is the first one of maximal total and the reported figures are its own
DominantIs(counters, key, api, bytes, files) ==
    \E i \in 1..Len(counters) :
        /\ counters[i].api = api
        /\ \A j \in 1..Len(counters) : TotalOf(counters, j, key) <= TotalOf(counters, i, key)
        /\ \A j \in 1..(i - 1) : TotalOf(counters, j, key) < TotalOf(counters, i, key)
        /\ bytes = TotalOf(counters, i, key)
        /\ files = CountOf(counters, i, key)

\* C8: for non-empty counters get_biggest_api returns, for read and for
\* write, the first API in iteration order whose byte total is maximal,
\* together with that API's byte total and its number of records with
\* non-zero bytes.
C8_DominantApi ==
    (pc = "api_returned" /\ "counters" \in DOMAIN darshan_log) =>
        /\ DominantIs(darshan_log.counters, BR, ret.biggest_read_api,
                      ret.biggest_read_api_bytes, ret.biggest_read_api_files)
        /\ DominantIs(darshan_log.counters, BW, ret.biggest_write_api,
                      ret.biggest_write_api_bytes, ret.biggest_write_api_files)

\* two APIs tie on a non-zero read total and the first is returned
C8_Witness ==
    /\ pc = "api_returned"
    /\ "counters" \in DOMAIN darshan_log
    /\ Len(darshan_log.counters) = 2
    /\ TotalOf(darshan_log.counters, 1, BR) = TotalOf(darshan_log.counters, 2, BR)
    /\ TotalOf(darshan_log.counters, 1, BR) > 0
    /\ ret.biggest_read_api = darshan_log.counters[1].api

\* the files left when the rows whose path begins with an underscore are removed
RECURSIVE RealFiles(_)
RealFiles(files) ==
    IF files = <<>> THEN <<>>
    ELSE IF StartsWith(Head(files).path, <<"_">>) THEN RealFiles(Tail(files))
    ELSE <<Head(files)>> \o RealFiles(Tail(files))

WithoutSynthetic(d) ==
    [d EXCEPT !.counters =
        [i \in 1..Len(d.counters) |->
            [api |-> d.counters[i].api, files |-> RealFiles(d.counters[i].files)]]]

\* C3: the per-API totals of get_biggest_api and the per-file-system totals
\* of get_biggest_fs are those of the same counters with every row whose
\* path begins with an underscore removed.
C3_SyntheticRowsExcluded ==
    /\ (pc = "api_returned" /\ "counters" \in DOMAIN darshan_log) =>
        biggest_api = ApiTotals(WithoutSynthetic(darshan_log).counters)
    /\ pc = "fs_returned" =>
        biggest_fs = get_biggest_fs(WithoutSynthetic(darshan_log)).biggest_fs

\* C4: a header without start_time does not abort classify_darshanlog; the
\* call returns without 'date' and 'start_time', with a warning and with the
\* other fields.
C4_MissingStartTimeTolerated ==
    (HasHeader /\ "start_time" \notin DOMAIN Header) =>
        /\ ~(pc = "raised" /\ excAt = "start_time")
        /\ pc = "returned" =>
            /\ "date" \notin DOMAIN result
            /\ "start_time" \notin DOMAIN result
            /\ \E i \in 1..Len(warned) : warned[i] = "start_time is undecipherable"
            /\ {"log_file", "md5", "read_or_write", "file_system",
                "compute_system", "shared_or_fpp"} \subseteq DOMAIN result
            /\ ("exe" \in DOMAIN Header /\ Len(Header.exe) > 0) =>
                    "application" \in DOMAIN result

\* C5: a run of main over several logs does not end in an exception.
C5_BatchRunTerminatesNormally ==
    ("darshanlogs" \in DOMAIN args /\ Len(args.darshanlogs) >= 2) => pc # "raised"

CountersEmptyOrAbsent ==
    \/ "counters" \notin DOMAIN darshan_log
    \/ darshan_log.counters = <<>>

\* C7: called with empty or absent counters, get_biggest_api and
\* get_biggest_fs return an empty result and do not raise.
C7_EmptyCountersGiveEmptyResult ==
    ( /\ CountersEmptyOrAbsent
      /\ \/ pc \in {"api_returned", "fs_returned"}
         \/ pc = "raised" /\ excAt \in {"get_biggest_api", "get_biggest_fs"} )
    => (pc # "raised" /\ ret = EmptyDict)

\* the (API, file, record) places under the APIs of a set whose file is not a
\* synthetic row, resolves to key and holds a value under name
FsCells(d, apis, key, name) ==
    { c \in UNION { UNION { {<<a, f>>} \X DOMAIN d.counters[a].files[f].records :
                              f \in 1..Len(d.counters[a].files) } :
                      a \in 1..Len(d.counters) } :
        /\ d.counters[c[1][1]].api \in apis
        /\ ~StartsWith(d.counters[c[1][1]].files[c[1][2]].path, <<"_">>)
        /\ KeyOf(d.counters[c[1][1]].files[c[1][2]].path, d.mounts) = key
        /\ name \in DOMAIN d.counters[c[1][1]].files[c[1][2]].records[c[2]] }

RECURSIVE SumFsCells(_, _, _)
SumFsCells(cells, d, name) ==
    IF cells = {} THEN 0
    ELSE LET c == CHOOSE x \in cells : TRUE
         IN  d.counters[c[1][1]].files[c[1][2]].records[c[2]][name]
               + SumFsCells(cells \ {c}, d, name)

FsTotal(d, apis, key, name) == SumFsCells(FsCells(d, apis, key, name), d, name)

DominantApis(api) == {api.biggest_read_api, api.biggest_write_api}

\* C9: every entry of biggest_fs holds the sums of BYTES_READ and
\* BYTES_WRITTEN over the records of the non-synthetic files of the dominant
\* read API and the dominant write API that resolve to its key, each API
\* counted once.
C9_FsTotalsCountOnce ==
    pc = "fs_returned" =>
        \A i \in 1..Len(biggest_fs) :
            /\ biggest_fs[i].read =
                 FsTotal(darshan_log, DominantApis(get_biggest_api(darshan_log).val),
                         biggest_fs[i].key, BR)
            /\ biggest_fs[i].write =
                 FsTotal(darshan_log, DominantApis(get_biggest_api(darshan_log).val),
                         biggest_fs[i].key, BW)

====
